---- MODULE Spec2Model ----
(***************************************************************************)
(* QR upload: a desktop page asks the HTTP API for a session, shows a QR   *)
(* code, opens a WebSocket for the session and waits for the push that the *)
(* S3 upload-completion handler sends.  The model holds the Session Store  *)
(* (DynamoDB), the two Lambda handlers' operations as read/write steps of  *)
(* concurrently running invocations, the API Gateway WebSocket transport,  *)
(* the browser's WebSocket objects, the desktop page's state machine, the  *)
(* routing of both Lambda entry points and the Mobile Upload Page.         *)
(*                                                                         *)
(* Time is the integer clock int(time.time()) counted in ticks of the      *)
(* session lifetime (1800 s): SESSION_EXPIRY is one tick.                  *)
(***************************************************************************)
EXTENDS Integers, FiniteSets, Sequences, Bags, TLC

\* ------------------------------------------------------------------ bounds
MaxStarts == 2      \* startUpload() calls of the desktop page
MaxConns == 2       \* WebSocket connections ever opened
MaxSessions == 3    \* uuid4 values ever generated
MaxTime == 3        \* last clock reading (ExpirySpec)
MaxRunning == 1     \* concurrently running invocations (ExpirySpec)
MaxAuth == 2        \* upload authorizations ever requested with success
MaxAttempts == 1    \* startUpload() calls of the desktop page (FairSpec)
MaxRetries == 3     \* startUpload() calls of the desktop page (RetrySpec)
MaxRequests == 4    \* requests the Mobile Upload Page sends (MobileSpec)
MaxCalls == 4       \* method calls on the WebSocketClient instance (HelperSpec)
MaxArgs == 3        \* command-line arguments of the deploy script (DeploySpec)

\* SESSION_EXPIRY_MINUTES = 30, in ticks of 1800 s
SESSION_EXPIRY == 1

\* uuid4 values: 1..MaxSessions are handed out in order, MaxSessions + 1 is a
\* well-formed id that is never generated
ValidIds == 1..(MaxSessions + 1)
MissingParam == 0          \* no sessionId query parameter
MalformedParam == -1       \* a sessionId that is not a UUID
Params == ValidIds \cup {MissingParam, MalformedParam}

\* requestContext.connectionId: the page's k-th socket gets connection k
\* createSession() calls the model has room for
MaxFetch == IF MaxRetries > MaxStarts THEN MaxRetries ELSE MaxStarts
Conns == 1..(IF MaxFetch > MaxConns THEN MaxFetch ELSE MaxConns)
ExtConns == 1..MaxConns    \* connections of other clients (ChannelSpec)
AppConns == 1..MaxFetch    \* connections of the desktop page (Spec)
NoConn == 0                \* wsConnectionId: None
NoTime == -1               \* attribute not set
NoKey == <<>>              \* uploadKey: None

\* session-uploads/{sessionId}/image-{timestamp}
Keys == {<<"session-uploads", s, t>> : s \in ValidIds, t \in 1..MaxTime}

VARIABLES
  now,          \* int(time.time())
  store,        \* Sessions table: sessionId -> item
  nextId,       \* number of uuid4 values generated
  inv,          \* bag of running Lambda invocations
  gw,           \* API Gateway: state of each WebSocket connection
  wire,         \* per connection, the frames posted and not yet received
  urls,         \* presigned URLs handed out (by upload key)
  objects,      \* keys present in the upload bucket
  currentView,  \* QRUploadApp.state.currentView
  sessionId,    \* QRUploadApp.state.sessionId (0: null)
  wsClient,     \* QRUploadApp.state.wsClient (0: null, k: the client holding socket k)
  qrText,       \* the text rendered into the QR code
  fetch,        \* createSession() calls of the desktop page
  sock,         \* the browser's WebSocket objects
  lastSocket,   \* the socket the page opened last (0: none yet)
  reply,        \* the last response of the HTTP API Lambda
  fault,        \* how the last event-Lambda invocation that answered no handler's
                \* response ended
  mobile,       \* the Mobile Upload Page: its state object, view and request
  helper,       \* a WebSocketClient instance, the sockets it created and what
                \* they transmitted
  deploy,       \* a run of infra/deploy-main-stack.sh
  pkg           \* a run of a build-and-package.sh

backendVars == <<now, store, nextId, inv, gw, wire, urls, objects>>
desktopVars == <<currentView, sessionId, wsClient, qrText, fetch, sock, lastSocket>>
vars == <<now, store, nextId, inv, gw, wire, urls, objects,
          currentView, sessionId, wsClient, qrText, fetch, sock, lastSocket,
          reply, fault, mobile, helper, deploy, pkg>>
\* the push-channel client helper on its own, and the scripts
toolVars == <<helper, deploy, pkg>>

\* ------------------------------------------------------------ Session Store
Absent ==
  [present |-> FALSE, status |-> "NONE", createdAt |-> NoTime, expiresAt |-> NoTime,
   wsConnectionId |-> NoConn, uploadKey |-> NoKey, completedAt |-> NoTime]

\* create_session.py, step 3
NewSession(t) ==
  [present |-> TRUE, status |-> "AWAITING_SCAN", createdAt |-> t,
   expiresAt |-> t + SESSION_EXPIRY,
   wsConnectionId |-> NoConn, uploadKey |-> NoKey, completedAt |-> NoTime]

\* table.get_item(...).get('Item'): Absent stands for None
get_session(st, sid) == st[sid]

\* table.put_item(Item=session_data)
save_session(st, sid, item) == [st EXCEPT ![sid] = item]

\* table.update_item(Key, 'SET ...'): sets the named attributes of the item and
\* leaves the others; with no condition expression it creates the item when
\* the key is not in the table
MergeItem(item, updates) ==
  [f \in DOMAIN item |->
     IF f = "present" THEN TRUE
     ELSE IF f \in DOMAIN updates THEN updates[f] ELSE item[f]]

\* variant: the item is replaced by the named attributes, as put_item would
update_session_Replace(st, sid, updates) ==
  [st EXCEPT ![sid] = MergeItem(Absent, updates)]

update_session(st, sid, updates) == [st EXCEPT ![sid] = MergeItem(st[sid], updates)]

\* variant: a scan without the filter
ScanByConnection_NoFilter(st, c) == {s \in ValidIds : st[s].present}

\* table.scan(FilterExpression='wsConnectionId = :conn_id'): the matching items
ScanByConnection(st, c) == {s \in ValidIds : st[s].present /\ st[s].wsConnectionId = c}

\* ---------------------------------------------------------------- validators
\* validate_session_id: (False, ...) for a missing or malformed id
validate_session_id(p) == p \in ValidIds

\* session.get('expiresAt', 0)
ExpiresAtOf(item) == IF item.expiresAt = NoTime THEN 0 ELSE item.expiresAt

\* variant: expiry is not looked at
validate_session_NoExpiry(item, t) == item.present

\* validate_session: exists and int(time.time()) > expiresAt is false
validate_session(item, t) == item.present /\ ~(t > ExpiresAtOf(item))

\* what a caller can send as sessionId: an id it was given, a well-formed id
\* that was never generated, a malformed one, or none
Sendable == {p \in Params : p \in ValidIds => (p <= nextId \/ p = MaxSessions + 1)}

\* --------------------------------------------------------- Lambda invocations
\* One running invocation: op names the handler, pc the store call it is about
\* to make, and the other fields are its local variables.
Call(op, c, p, k, pc, snap) ==
  [op |-> op, conn |-> c, sid |-> p, key |-> k, pc |-> pc, snap |-> snap]

Running == BagToSet(inv)
Spawn(b, r) == b (+) SetToBag({r})
Finish(b, r) == b (-) SetToBag({r})
Step(b, r, r2) == Spawn(Finish(b, r), r2)
CallsOf(op) == {r \in Running : r.op = op}
CountOf(op) == BagCardinality([r \in CallsOf(op) |-> inv[r]])

\* A frame is the text a socket delivers (event.data): kind tells what
\* JSON.parse makes of it, the other fields are those of the parsed object.
ObjectFrame(a, sid, key) ==
  [kind |-> "object", action |-> a, sessionId |-> sid, uploadKey |-> key]

\* The push message of s3_upload_completion.py, as json.dumps writes it (its
\* timestamp is not read by any receiver)
CompletionFrame(sid, key) == ObjectFrame("UPLOAD_COMPLETED", sid, key)

\* ------------------------------------------------------- HTTP API: responses
\* success_response / error_response: the status code, and the uploadKey of a
\* body that carries one
Response(code, key) == [code |-> code, key |-> key]
NoResponse == Response(0, NoKey)   \* nothing has been answered yet

\* ------------------------------------------------ HTTP API: create_session.py
\* create_session.handle: a fresh uuid4, the new item, put_item
create_session ==
  /\ nextId < MaxSessions
  /\ nextId' = nextId + 1
  /\ store' = save_session(store, nextId + 1, NewSession(now))
  /\ reply' = Response(200, NoKey)

\* ----------------------------------------- HTTP API: generate_presigned_url.py
\* the handler without the check that get_session found an item
AuthCode_AbsentOk(p, st, t) ==
  IF p = MissingParam THEN 400
  ELSE IF ~validate_session_id(p) THEN 404
  ELSE IF get_session(st, p).present /\ ~validate_session(get_session(st, p), t) THEN 400
  ELSE IF get_session(st, p).status = "COMPLETED" THEN 400
  ELSE 200

\* the handler without the expiry check of step 4
AuthCode_NoExpiry(p, st, t) ==
  IF p = MissingParam THEN 400
  ELSE IF ~validate_session_id(p) THEN 404
  ELSE IF ~get_session(st, p).present THEN 404
  ELSE IF get_session(st, p).status = "COMPLETED" THEN 400
  ELSE 200

\* the handler without the "already completed" check
AuthCode_NoCompleted(p, st, t) ==
  IF p = MissingParam THEN 400
  ELSE IF ~validate_session_id(p) THEN 404
  ELSE IF ~get_session(st, p).present THEN 404
  ELSE IF ~validate_session(get_session(st, p), t) THEN 400
  ELSE 200

\* The status code the handler answers with, from the query parameter and the
\* item it retrieved (steps 1-4 and Error Responses)
AuthCode(p, st, t) ==
  IF p = MissingParam THEN 400
  ELSE IF ~validate_session_id(p) THEN 404
  ELSE IF ~get_session(st, p).present THEN 404
  ELSE IF ~validate_session(get_session(st, p), t) THEN 400
  ELSE IF get_session(st, p).status = "COMPLETED" THEN 400
  ELSE 200

\* step 5: session-uploads/{sessionId}/image-{timestamp}
UploadKeyFor(sid, t) == <<"session-uploads", sid, t>>

\* steps 7-8: the attributes the handler sets
AuthUpdates(key) == [status |-> "UPLOAD_REQUESTED", uploadKey |-> key]

\* a GET /upload-url?sessionId=p reaches the handler; steps 1-6: validate,
\* get_session, validate, derive the key, presign.  An invocation that answers
\* with an error ends here.
AuthRead(p) ==
  /\ Cardinality(urls) + CountOf("auth") < MaxAuth
  /\ p \in Sendable
  /\ inv' = IF AuthCode(p, store, now) = 200
              THEN Spawn(inv, Call("auth", NoConn, p, UploadKeyFor(p, now), "write", NoConn))
              ELSE inv
  /\ reply' = IF AuthCode(p, store, now) = 200
                THEN reply
                ELSE Response(AuthCode(p, store, now), NoKey)
  /\ UNCHANGED <<now, store, nextId, gw, wire, urls, objects>>
  /\ UNCHANGED desktopVars
  /\ UNCHANGED <<fault, mobile>>
  /\ UNCHANGED toolVars

\* steps 7-9: update_session, return uploadUrl and uploadKey
AuthWrite(r) ==
  /\ r \in Running /\ r.op = "auth" /\ r.pc = "write"
  /\ store' = update_session(store, r.sid, AuthUpdates(r.key))
  /\ urls' = urls \cup {r.key}
  /\ reply' = Response(200, r.key)
  /\ inv' = Finish(inv, r)
  /\ UNCHANGED <<now, nextId, gw, wire, objects>>
  /\ UNCHANGED desktopVars
  /\ UNCHANGED <<fault, mobile>>
  /\ UNCHANGED toolVars

\* ------------------------------------------------ WebSocket: websocket_connect.py
\* steps 2-5: the connection is accepted iff the sessionId is valid and the
\* session exists and is not expired
ConnectOk(p, st, t) == validate_session_id(p) /\ validate_session(get_session(st, p), t)

ConnectUpdates(c) == [wsConnectionId |-> c]

\* API Gateway ends an established connection: $disconnect is invoked
GwDrop(g, c) == [g EXCEPT ![c] = "gone"]
DisconnectCall(c) == Call("disconnect", c, MissingParam, NoKey, "read", NoConn)

ConnectRead(r) ==
  /\ r \in Running /\ r.op = "connect" /\ r.pc = "read"
  /\ IF ConnectOk(r.sid, store, now)
       THEN /\ inv' = Step(inv, r, [r EXCEPT !.pc = "write"])
            /\ gw' = gw
       ELSE /\ inv' = Finish(inv, r)
            /\ gw' = [gw EXCEPT ![r.conn] = "rejected"]
  /\ UNCHANGED <<now, store, nextId, wire, urls, objects>>
  /\ UNCHANGED desktopVars
  /\ UNCHANGED <<reply, fault, mobile>>
  /\ UNCHANGED toolVars

\* variant: the handler sends the recorded completion to a connection that
\* attaches to a completed session
ConnectWrite_Replay(r) ==
  /\ r \in Running /\ r.op = "connect" /\ r.pc = "write"
  /\ store' = update_session(store, r.sid, ConnectUpdates(r.conn))
  /\ sock[r.conn].rs = "CONNECTING"
  /\ gw' = [gw EXCEPT ![r.conn] = "up"]
  /\ sock' = [sock EXCEPT ![r.conn].rs = "OPEN"]
  /\ inv' = Finish(inv, r)
  /\ wire' = IF store[r.sid].status = "COMPLETED"
               THEN [wire EXCEPT ![r.conn] =
                       Append(@, CompletionFrame(r.sid, store[r.sid].uploadKey))]
               ELSE wire
  /\ UNCHANGED <<now, nextId, urls, objects>>
  /\ UNCHANGED <<currentView, sessionId, wsClient, qrText, fetch, lastSocket>>
  /\ UNCHANGED <<reply, fault, mobile>>
  /\ UNCHANGED toolVars

\* steps 6-7: update_session(wsConnectionId), 200.  The client end becomes OPEN;
\* a client that gave up during the handshake is disconnected at once.
ConnectWrite(r) ==
  /\ r \in Running /\ r.op = "connect" /\ r.pc = "write"
  /\ store' = update_session(store, r.sid, ConnectUpdates(r.conn))
  /\ IF sock[r.conn].rs = "CONNECTING"
       THEN /\ gw' = [gw EXCEPT ![r.conn] = "up"]
            /\ sock' = [sock EXCEPT ![r.conn].rs = "OPEN"]
            /\ inv' = Finish(inv, r)
       ELSE /\ gw' = GwDrop(gw, r.conn)
            /\ sock' = sock
            /\ inv' = Step(inv, r, DisconnectCall(r.conn))
  /\ UNCHANGED <<now, nextId, wire, urls, objects>>
  /\ UNCHANGED <<currentView, sessionId, wsClient, qrText, fetch, lastSocket>>
  /\ UNCHANGED <<reply, fault, mobile>>
  /\ UNCHANGED toolVars

\* --------------------------------------------- WebSocket: websocket_disconnect.py
\* steps 1-2: get_session_by_connection_id; items[0] is any matching item.
\* step 4: with no match the handler returns 200 at once.
DisconnectRead(r) ==
  /\ r \in Running /\ r.op = "disconnect" /\ r.pc = "read"
  /\ IF ScanByConnection(store, r.conn) = {}
       THEN inv' = Finish(inv, r)
       ELSE \E s \in ScanByConnection(store, r.conn) :
              inv' = Step(inv, r, [r EXCEPT !.pc = "write", !.sid = s])
  /\ UNCHANGED <<now, store, nextId, gw, wire, urls, objects>>
  /\ UNCHANGED desktopVars
  /\ UNCHANGED <<reply, fault, mobile>>
  /\ UNCHANGED toolVars

DisconnectUpdates == [wsConnectionId |-> NoConn]

\* steps 3-4: clear wsConnectionId, return 200
DisconnectWrite(r) ==
  /\ r \in Running /\ r.op = "disconnect" /\ r.pc = "write"
  /\ store' = update_session(store, r.sid, DisconnectUpdates)
  /\ inv' = Finish(inv, r)
  /\ UNCHANGED <<now, nextId, gw, wire, urls, objects>>
  /\ UNCHANGED desktopVars
  /\ UNCHANGED <<reply, fault, mobile>>
  /\ UNCHANGED toolVars

\* -------------------------------------------- S3 event: s3_upload_completion.py
\* step 2: the sessionId of a key session-uploads/{sessionId}/image-xxx
\* the parse that takes the segment after the session's
SessionOfKey_LastSegment(key) == key[3]

SessionOfKey(key) == key[2]

\* a PUT to a presigned URL creates the object; S3 emits ObjectCreated
\* (each issued key is written once)
Upload(key) ==
  /\ key \in urls /\ key \notin objects
  /\ objects' = objects \cup {key}
  /\ inv' = Spawn(inv, Call("s3", NoConn, SessionOfKey(key), key, "read", NoConn))
  /\ UNCHANGED <<now, store, nextId, gw, wire, urls>>
  /\ UNCHANGED desktopVars
  /\ UNCHANGED <<reply, fault, mobile>>
  /\ UNCHANGED toolVars

\* steps 1-3: parse the record, get_session; the connection id is read off the
\* retrieved item, and an event whose session is not in the table is dropped
S3Read(r) ==
  /\ r \in Running /\ r.op = "s3" /\ r.pc = "read"
  /\ inv' = IF get_session(store, r.sid).present
              THEN Step(inv, r, [r EXCEPT !.pc = "write",
                                          !.snap = get_session(store, r.sid).wsConnectionId])
              ELSE Finish(inv, r)
  /\ UNCHANGED <<now, store, nextId, gw, wire, urls, objects>>
  /\ UNCHANGED desktopVars
  /\ UNCHANGED <<reply, fault, mobile>>
  /\ UNCHANGED toolVars

\* variant: completedAt is not written
S3Updates_NoTime(key, t) == [status |-> "COMPLETED", uploadKey |-> key]

S3Updates(key, t) == [status |-> "COMPLETED", uploadKey |-> key, completedAt |-> t]

\* variant: the post is repeated
send_message_Twice(w, g, c, frame) ==
  IF g[c] = "up" THEN [w EXCEPT ![c] = Append(Append(w[c], frame), frame)] ELSE w

\* utils/websocket.py send_message: post_to_connection; GoneException (the
\* connection is not established any more) is swallowed
send_message(w, g, c, frame) ==
  IF g[c] = "up" THEN [w EXCEPT ![c] = Append(w[c], frame)] ELSE w

\* steps 4-6: update_session, then the notification if a connection id exists
S3Write(r) ==
  /\ r \in Running /\ r.op = "s3" /\ r.pc = "write"
  /\ store' = update_session(store, r.sid, S3Updates(r.key, now))
  /\ wire' = IF r.snap # NoConn
               THEN send_message(wire, gw, r.snap, CompletionFrame(r.sid, r.key))
               ELSE wire
  /\ inv' = Finish(inv, r)
  /\ UNCHANGED <<now, nextId, gw, urls, objects>>
  /\ UNCHANGED desktopVars
  /\ UNCHANGED <<reply, fault, mobile>>
  /\ UNCHANGED toolVars

\* steps 4-5 when post_to_connection raises an exception other than
\* GoneException: send_message prints it and re-raises, no step of the handler
\* catches it, and the invocation ends with the error after update_session
S3WriteRaises(r) ==
  /\ r \in Running /\ r.op = "s3" /\ r.pc = "write"
  /\ r.snap # NoConn
  /\ store' = update_session(store, r.sid, S3Updates(r.key, now))
  /\ fault' = "raised"
  /\ inv' = Finish(inv, r)
  /\ UNCHANGED <<now, nextId, gw, wire, urls, objects>>
  /\ UNCHANGED desktopVars
  /\ UNCHANGED <<reply, mobile>>
  /\ UNCHANGED toolVars

\* ---------------------------------------------------- entry points: routing
Methods == {"GET", "POST", "PUT"}
Paths == {"/sessions", "/upload-url", "/"}

\* lambda_handler of the HTTP API Lambda: the handler a request is passed to
HttpRoute(method, path) ==
  IF method = "POST" /\ path = "/sessions" THEN "create_session"
  ELSE IF method = "GET" /\ path = "/upload-url" THEN "generate_presigned_url"
  ELSE "not_found"

\* the else branch: error_response('Not Found', 404)
HttpUnrouted(method, path) ==
  /\ HttpRoute(method, path) = "not_found"
  /\ reply' = Response(404, NoKey)
  /\ UNCHANGED backendVars
  /\ UNCHANGED desktopVars
  /\ UNCHANGED <<fault, mobile>>
  /\ UNCHANGED toolVars

\* the events the WebSocket & Event Lambda is invoked with: the routeKey of
\* requestContext ("": the event has none) and what event['Records'][0] holds
NoRouteKey == ""
RouteKeys == {"$connect", "$disconnect", "$default"}
Events == [routeKey : RouteKeys \cup {NoRouteKey}, records : {"s3", "other", "none"}]

\* lambda_handler of the WebSocket & Event Lambda.  The test of the route key
\* is nested in the branch of events that carry one and has no else of its
\* own: with any other route key the function runs off its end and returns
\* None.
EventRoute(ev) ==
  IF ev.routeKey # NoRouteKey
    THEN IF ev.routeKey = "$connect" THEN "websocket_connect"
         ELSE IF ev.routeKey = "$disconnect" THEN "websocket_disconnect"
         ELSE "no_response"
  ELSE IF ev.records = "s3" THEN "s3_upload_completion"
  ELSE "bad_request"

\* an event no handler is selected for: error_response('Unknown event type',
\* 400), or the return of None
EventUnrouted(ev) ==
  /\ EventRoute(ev) \in {"bad_request", "no_response"}
  /\ fault' = EventRoute(ev)
  /\ UNCHANGED backendVars
  /\ UNCHANGED desktopVars
  /\ UNCHANGED <<reply, mobile>>
  /\ UNCHANGED toolVars

\* ------------------------------------------------------------- environment
\* the clock advances
Tick ==
  /\ now < MaxTime
  /\ now' = now + 1
  /\ UNCHANGED <<store, nextId, inv, gw, wire, urls, objects>>
  /\ UNCHANGED desktopVars
  /\ UNCHANGED <<reply, fault, mobile>>
  /\ UNCHANGED toolVars

\* DynamoDB time-to-live on expiresAt deletes an expired item
Purge(s) ==
  /\ store[s].present /\ store[s].expiresAt # NoTime /\ now > store[s].expiresAt
  /\ store' = [store EXCEPT ![s] = Absent]
  /\ UNCHANGED <<now, nextId, inv, gw, wire, urls, objects>>
  /\ UNCHANGED desktopVars
  /\ UNCHANGED <<reply, fault, mobile>>
  /\ UNCHANGED toolVars

\* ------------------------------------------------ clients other than the page
NoSocket == [rs |-> "NONE", fail |-> FALSE, app |-> FALSE]

\* new WebSocket(url): the handshake invokes $connect with the query parameter
NewSocket(app) == [rs |-> "CONNECTING", fail |-> FALSE, app |-> app]

\* a socket whose connection has ended
ClosedSocket(sk) == [rs |-> "CLOSED", fail |-> FALSE, app |-> sk.app]

\* POST /sessions by any caller
ExtCreate ==
  /\ create_session
  /\ UNCHANGED <<now, inv, gw, wire, urls, objects>>
  /\ UNCHANGED desktopVars
  /\ UNCHANGED <<fault, mobile>>
  /\ UNCHANGED toolVars

\* a client opens a connection with ?sessionId=p (or without the parameter)
ExtConnect(c, p) ==
  /\ gw[c] = "none" /\ sock[c].rs = "NONE"
  /\ p \in Sendable
  /\ \A d \in Conns : d < c => sock[d].rs # "NONE"
  /\ sock' = [sock EXCEPT ![c] = NewSocket(FALSE)]
  /\ gw' = [gw EXCEPT ![c] = "handshake"]
  /\ inv' = Spawn(inv, Call("connect", c, p, NoKey, "read", NoConn))
  /\ UNCHANGED <<now, store, nextId, wire, urls, objects>>
  /\ UNCHANGED <<currentView, sessionId, wsClient, qrText, fetch, lastSocket>>
  /\ UNCHANGED <<reply, fault, mobile>>
  /\ UNCHANGED toolVars

\* the client goes away; API Gateway invokes $disconnect for an established
\* connection
ExtClose(c) ==
  /\ ~sock[c].app /\ sock[c].rs \in {"CONNECTING", "OPEN"}
  /\ sock' = [sock EXCEPT ![c] = ClosedSocket(sock[c])]
  /\ wire' = [wire EXCEPT ![c] = <<>>]
  /\ IF gw[c] = "up"
       THEN gw' = GwDrop(gw, c) /\ inv' = Spawn(inv, DisconnectCall(c))
       ELSE gw' = gw /\ inv' = inv
  /\ UNCHANGED <<now, store, nextId, urls, objects>>
  /\ UNCHANGED <<currentView, sessionId, wsClient, qrText, fetch, lastSocket>>
  /\ UNCHANGED <<reply, fault, mobile>>
  /\ UNCHANGED toolVars

\* the close event of a connection that is already gone is delivered again
StrayDisconnect(c) ==
  /\ gw[c] = "gone"
  /\ CallsOf("disconnect") = {}
  /\ inv' = Spawn(inv, DisconnectCall(c))
  /\ UNCHANGED <<now, store, nextId, gw, wire, urls, objects>>
  /\ UNCHANGED desktopVars
  /\ UNCHANGED <<reply, fault, mobile>>
  /\ UNCHANGED toolVars

\* the client receives a posted frame
ExtReceive(c) ==
  /\ ~sock[c].app /\ sock[c].rs = "OPEN" /\ wire[c] # <<>>
  /\ wire' = [wire EXCEPT ![c] = Tail(wire[c])]
  /\ UNCHANGED <<now, store, nextId, inv, gw, urls, objects>>
  /\ UNCHANGED desktopVars
  /\ UNCHANGED <<reply, fault, mobile>>
  /\ UNCHANGED toolVars

\* ------------------------------------------------- browser WebSocket objects
\* WebSocket.close(): a socket that is still connecting fails (error, then
\* close, are fired later), an open one starts the closing handshake, and a
\* closing or closed one is left alone
BrowserClose(sk) ==
  IF sk.rs = "CONNECTING" THEN [sk EXCEPT !.rs = "CLOSING", !.fail = TRUE]
  ELSE IF sk.rs = "OPEN" THEN [sk EXCEPT !.rs = "CLOSING"]
  ELSE sk

\* ------------------------------------------------------ desktop page: app.js
NoUrl == [target |-> "none", sessionId |-> MissingParam]

\* startUpload, lines 72-74: the text handed to generateQRCode.
\* encodeURIComponent leaves a uuid as it is.
QrUrl(sid) == [target |-> "upload-url", sessionId |-> sid]

\* the Mobile Upload Page address of a session: {websiteBaseUrl}/uploads/?sessionId=
MobilePageUrl(sid) == [target |-> "uploads", sessionId |-> sid]

\* frames (event.data) a socket can deliver
TextFrame == [kind |-> "text", action |-> "", sessionId |-> MissingParam, uploadKey |-> NoKey]
NullFrame == [kind |-> "null", action |-> "", sessionId |-> MissingParam, uploadKey |-> NoKey]
\* frames that are no completion notice of a session in the table: not JSON,
\* JSON null, another action, a completion naming an unknown session
OtherFrames ==
  {TextFrame, NullFrame}
    \cup {ObjectFrame("ERROR", sid, NoKey) : sid \in ValidIds}
    \cup {ObjectFrame("UPLOAD_COMPLETED", MaxSessions + 1, NoKey)}

\* variant: the client is dropped without close()
teardownWebSocket_NoClose(sk) == sk

\* teardownWebSocket: close the client's socket, if a client is held
teardownWebSocket(sk) ==
  IF wsClient # 0 THEN [sk EXCEPT ![wsClient] = BrowserClose(sk[wsClient])] ELSE sk

\* showSuccess / showError: teardownWebSocket, then showView
showSuccess(sk) ==
  /\ sock' = teardownWebSocket(sk)
  /\ wsClient' = 0
  /\ currentView' = "success"
  /\ UNCHANGED <<sessionId, qrText>>

showError(sk) ==
  /\ sock' = teardownWebSocket(sk)
  /\ wsClient' = 0
  /\ currentView' = "error"

\* reset: teardownWebSocket, clear the session and the QR code, showView("initial")
reset ==
  /\ sock' = teardownWebSocket(sock)
  /\ wsClient' = 0
  /\ sessionId' = 0
  /\ qrText' = NoUrl
  /\ currentView' = "initial"

\* variant: a completion notice counts when it names the active session or one
\* created before it
IsCompletion_OwnOrEarlier(frame, active) ==
  /\ frame.kind = "object"
  /\ frame.action = "UPLOAD_COMPLETED"
  /\ frame.sessionId <= active

\* variant: any completion notice counts, whatever session it names
IsCompletion_AnySession(frame, active) ==
  /\ frame.kind = "object"
  /\ frame.action = "UPLOAD_COMPLETED"

\* handleWebSocketMessage: whether the frame is the completion notice of the
\* active session (a frame that does not parse returns, JSON null throws)
IsCompletion(frame, active) ==
  /\ frame.kind = "object"
  /\ frame.action = "UPLOAD_COMPLETED"
  /\ frame.sessionId = active

\* variant: the page reads the frame and does nothing with it
handleWebSocketMessage_Ignore(frame, sk) ==
  sock' = sk /\ UNCHANGED <<currentView, sessionId, wsClient, qrText>>

handleWebSocketMessage(frame, sk) ==
  IF IsCompletion(frame, sessionId)
    THEN showSuccess(sk)
    ELSE sock' = sk /\ UNCHANGED <<currentView, sessionId, wsClient, qrText>>

\* the next createSession() call
NextFetch == CHOOSE i \in 1..(MaxFetch + 1) :
               /\ i <= MaxFetch => fetch[i].st = "idle"
               /\ \A j \in 1..(i - 1) : fetch[j].st # "idle"

\* startUpload up to its await: click on start (initial view) or retry (error view)
startUpload ==
  /\ currentView \in {"initial", "error"}
  /\ NextFetch <= MaxFetch
  /\ currentView' = "loading"
  /\ fetch' = [fetch EXCEPT ![NextFetch].st = "pending"]
  /\ UNCHANGED <<sessionId, wsClient, qrText, sock, lastSocket>>
  /\ UNCHANGED backendVars
  /\ UNCHANGED <<reply, fault, mobile>>
  /\ UNCHANGED toolVars

\* POST /sessions is served: create_session.handle answers 200
CreateSessionDone(i) ==
  /\ fetch[i].st = "pending"
  /\ create_session
  /\ fetch' = [fetch EXCEPT ![i] = [st |-> "ok", sid |-> nextId + 1]]
  /\ UNCHANGED <<now, inv, gw, wire, urls, objects>>
  /\ UNCHANGED <<currentView, sessionId, wsClient, qrText, sock, lastSocket>>
  /\ UNCHANGED <<fault, mobile>>
  /\ UNCHANGED toolVars

\* fetch rejects, or the response is not OK (createSession throws)
CreateSessionFailed(i) ==
  /\ fetch[i].st = "pending"
  /\ fetch' = [fetch EXCEPT ![i].st = "fail"]
  /\ UNCHANGED <<currentView, sessionId, wsClient, qrText, sock, lastSocket>>
  /\ UNCHANGED backendVars
  /\ UNCHANGED <<reply, fault, mobile>>
  /\ UNCHANGED toolVars

\* connectWebSocket: a new client for the session, held in state.wsClient, and
\* connect() on it
connectWebSocket(i, sid) ==
  /\ wsClient' = i
  /\ lastSocket' = i
  /\ sock' = [sock EXCEPT ![i] = NewSocket(TRUE)]
  /\ gw' = [gw EXCEPT ![i] = "handshake"]
  /\ inv' = Spawn(inv, Call("connect", i, sid, NoKey, "read", NoConn))

\* startUpload after its await, lines 71-81: the session arrived
StartUploadResumed(i) ==
  /\ fetch[i].st = "ok"
  /\ fetch' = [fetch EXCEPT ![i].st = "done"]
  /\ sessionId' = fetch[i].sid
  /\ qrText' = QrUrl(fetch[i].sid)
  /\ connectWebSocket(i, fetch[i].sid)
  /\ currentView' = "qr"
  /\ UNCHANGED <<now, store, nextId, wire, urls, objects>>
  /\ UNCHANGED <<reply, fault, mobile>>
  /\ UNCHANGED toolVars

\* startUpload after its await when generateQRCode throws (the QRCode library is
\* not loaded): the container is cleared, the catch block shows the error
StartUploadNoLibrary(i) ==
  /\ fetch[i].st = "ok"
  /\ fetch' = [fetch EXCEPT ![i].st = "done"]
  /\ sessionId' = fetch[i].sid
  /\ qrText' = NoUrl
  /\ showError(sock)
  /\ UNCHANGED lastSocket
  /\ UNCHANGED backendVars
  /\ UNCHANGED <<reply, fault, mobile>>
  /\ UNCHANGED toolVars

\* variant: the failure is logged and the view is left as it is
StartUploadFailed_Silent(i) ==
  /\ fetch[i].st = "fail"
  /\ fetch' = [fetch EXCEPT ![i].st = "done"]
  /\ UNCHANGED <<currentView, sessionId, wsClient, qrText, sock, lastSocket>>
  /\ UNCHANGED backendVars
  /\ UNCHANGED <<reply, fault, mobile>>
  /\ UNCHANGED toolVars

\* startUpload's catch block, lines 82-85: createSession threw
StartUploadFailed(i) ==
  /\ fetch[i].st = "fail"
  /\ fetch' = [fetch EXCEPT ![i].st = "done"]
  /\ showError(sock)
  /\ UNCHANGED <<sessionId, qrText, lastSocket>>
  /\ UNCHANGED backendVars
  /\ UNCHANGED <<reply, fault, mobile>>
  /\ UNCHANGED toolVars

\* the buttons that lead to reset: cancel (qr view), reset (error view),
\* new upload (success view)
cancelUpload ==
  /\ currentView = "qr"
  /\ reset
  /\ UNCHANGED <<fetch, lastSocket>>
  /\ UNCHANGED backendVars
  /\ UNCHANGED <<reply, fault, mobile>>
  /\ UNCHANGED toolVars

ResetClick ==
  /\ currentView = "error"
  /\ reset
  /\ UNCHANGED <<fetch, lastSocket>>
  /\ UNCHANGED backendVars
  /\ UNCHANGED <<reply, fault, mobile>>
  /\ UNCHANGED toolVars

NewUploadClick ==
  /\ currentView = "success"
  /\ reset
  /\ UNCHANGED <<fetch, lastSocket>>
  /\ UNCHANGED backendVars
  /\ UNCHANGED <<reply, fault, mobile>>
  /\ UNCHANGED toolVars

\* API Gateway's side of a connection whose client end has closed
GwClientLeft(c) ==
  IF gw[c] = "up"
    THEN gw' = GwDrop(gw, c) /\ inv' = Spawn(inv, DisconnectCall(c))
    ELSE gw' = gw /\ inv' = inv

\* onmessage: a posted frame arrives on an open socket of the page
SocketMessage(k) ==
  /\ sock[k].app /\ sock[k].rs = "OPEN" /\ wire[k] # <<>>
  /\ wire' = [wire EXCEPT ![k] = Tail(wire[k])]
  /\ handleWebSocketMessage(Head(wire[k]), sock)
  /\ UNCHANGED <<fetch, lastSocket>>
  /\ UNCHANGED <<now, store, nextId, inv, gw, urls, objects>>
  /\ UNCHANGED <<reply, fault, mobile>>
  /\ UNCHANGED toolVars

\* onmessage with a frame the server did not queue on the connection
SocketFrame(k, frame) ==
  /\ sock[k].app /\ sock[k].rs = "OPEN"
  /\ handleWebSocketMessage(frame, sock)
  /\ UNCHANGED <<fetch, lastSocket>>
  /\ UNCHANGED backendVars
  /\ UNCHANGED <<reply, fault, mobile>>
  /\ UNCHANGED toolVars

\* onerror: the connection breaks, or the handshake is refused
SocketError(k) ==
  /\ sock[k].app /\ sock[k].rs \in {"CONNECTING", "OPEN"}
  /\ showError([sock EXCEPT ![k] = ClosedSocket(sock[k])])
  /\ wire' = [wire EXCEPT ![k] = <<>>]
  /\ GwClientLeft(k)
  /\ UNCHANGED <<sessionId, qrText, fetch, lastSocket>>
  /\ UNCHANGED <<now, store, nextId, urls, objects>>
  /\ UNCHANGED <<reply, fault, mobile>>
  /\ UNCHANGED toolVars

\* a socket closed by the page finishes closing: onerror if it never opened,
\* then onclose (which only logs)
SocketClosed(k) ==
  /\ sock[k].app /\ sock[k].rs = "CLOSING"
  /\ IF sock[k].fail
       THEN showError([sock EXCEPT ![k] = ClosedSocket(sock[k])])
            /\ UNCHANGED <<sessionId, qrText>>
       ELSE sock' = [sock EXCEPT ![k] = ClosedSocket(sock[k])]
            /\ UNCHANGED <<currentView, sessionId, wsClient, qrText>>
  /\ wire' = [wire EXCEPT ![k] = <<>>]
  /\ GwClientLeft(k)
  /\ UNCHANGED <<fetch, lastSocket>>
  /\ UNCHANGED <<now, store, nextId, urls, objects>>
  /\ UNCHANGED <<reply, fault, mobile>>
  /\ UNCHANGED toolVars

\* onclose: the server end closes an open connection (idle timeout) after the
\* frames it posted
SocketPeerClose(k) ==
  /\ sock[k].app /\ sock[k].rs = "OPEN" /\ wire[k] = <<>>
  /\ sock' = [sock EXCEPT ![k] = ClosedSocket(sock[k])]
  /\ GwClientLeft(k)
  /\ UNCHANGED <<currentView, sessionId, wsClient, qrText, fetch, lastSocket>>
  /\ UNCHANGED <<now, store, nextId, wire, urls, objects>>
  /\ UNCHANGED <<reply, fault, mobile>>
  /\ UNCHANGED toolVars

\* ------------------------------------------------ WebSocketClient (the helper)
\* constructor: this.socket = null; no socket created, nothing transmitted
NewClient ==
  [socket |-> 0, created |-> 0, closed |-> {},
   ws |-> [k \in 1..MaxCalls |-> NoSocket],
   sent |-> <<>>, calls |-> 0, last |-> "new"]

\* close(): socket.close() on the held socket and this.socket = null; nothing
\* when no socket is held
close(h) ==
  IF h.socket # 0
    THEN [h EXCEPT !.ws[h.socket] = BrowserClose(h.ws[h.socket]),
                   !.closed = h.closed \cup {h.socket},
                   !.socket = 0]
    ELSE h

\* new WebSocket(url), held in this.socket
OpenSocket(h) ==
  [h EXCEPT !.created = h.created + 1,
            !.socket = h.created + 1,
            !.ws[h.created + 1] = NewSocket(TRUE)]

\* connect() that replaces the held socket without closing it
connect_NoClose(h) == OpenSocket(h)

\* connect(): close() if a socket is held, then the new socket
connect(h) == OpenSocket(IF h.socket # 0 THEN close(h) ELSE h)

\* send(data) that transmits on any held socket
send_NoCheck(h) ==
  IF h.socket = 0 THEN h ELSE [h EXCEPT !.sent = Append(h.sent, h.socket)]

\* send(data): return unless a socket is held and its readyState is OPEN,
\* otherwise socket.send(JSON.stringify(data))
send(h) ==
  IF h.socket = 0 \/ h.ws[h.socket].rs # "OPEN"
    THEN h
    ELSE [h EXCEPT !.sent = Append(h.sent, h.socket)]

\* a method call is recorded with its name
Called(h, name) == [h EXCEPT !.calls = h.calls + 1, !.last = name]

HelperFrame == UNCHANGED <<backendVars, desktopVars, reply, fault, mobile, deploy, pkg>>

HelperConnect ==
  /\ helper.calls < MaxCalls
  /\ helper' = Called(connect(helper), "connect")
  /\ HelperFrame

HelperSend ==
  /\ helper.calls < MaxCalls
  /\ helper' = Called(send(helper), "send")
  /\ HelperFrame

HelperClose ==
  /\ helper.calls < MaxCalls
  /\ helper' = Called(close(helper), "close")
  /\ HelperFrame

\* the browser: the handshake of a socket completes (onopen)
HelperSocketOpens(k) ==
  /\ k \in 1..helper.created /\ helper.ws[k].rs = "CONNECTING"
  /\ helper' = [helper EXCEPT !.ws[k].rs = "OPEN"]
  /\ HelperFrame

\* the browser: the connection of a socket ends (onerror / onclose)
HelperSocketEnds(k) ==
  /\ k \in 1..helper.created /\ helper.ws[k].rs \in {"CONNECTING", "OPEN", "CLOSING"}
  /\ helper' = [helper EXCEPT !.ws[k] = ClosedSocket(helper.ws[k])]
  /\ HelperFrame

\* ----------------------------------------------- infra/deploy-main-stack.sh
\* words of the command line, and values AWS_ENV can have in the environment
\* the script is started in ("": unset)
Words == {"-e", "-p", "-d", "-h", "dev", "prod", "--force"}
RECURSIVE SeqsUpTo(_)
SeqsUpTo(n) ==
  IF n = 0 THEN {<<>>}
  ELSE SeqsUpTo(n - 1) \cup {Append(a, w) : a \in {b \in SeqsUpTo(n - 1) : Len(b) = n - 1}, w \in Words}
ArgLists == SeqsUpTo(MaxArgs)
Inherited == {"", "dev", "prod"}

\* the script has not been started
NotRun ==
  [pc |-> "idle", args |-> <<>>, AWS_ENV |-> "", code |-> 0,
   aws |-> {}, template |-> FALSE, written |-> FALSE]

\* the while loop over the arguments: the value of AWS_ENV afterwards, and
\* whether usage ran (-h, unknown option) or "$2" was unbound under set -u
RECURSIVE ParseArgs(_, _)
ParseArgs(args, st) ==
  IF args = <<>> THEN st
  ELSE IF Head(args) \in {"-e", "-p"}
    THEN IF Len(args) < 2
           THEN [st EXCEPT !.exit = TRUE]
           ELSE ParseArgs(SubSeq(args, 3, Len(args)),
                          IF Head(args) = "-e" THEN [st EXCEPT !.AWS_ENV = args[2]] ELSE st)
  ELSE IF Head(args) = "-d" THEN ParseArgs(Tail(args), st)
  ELSE [st EXCEPT !.exit = TRUE]

\* lines 55-64: AWS_ENV empty or unset, or not dev: usage
usage(st) == st.exit \/ st.AWS_ENV = "" \/ st.AWS_ENV # "dev"

DeployFrame == UNCHANGED <<backendVars, desktopVars, reply, fault, mobile, helper, pkg>>

\* the script is started: argument parsing and validation, exit 1 from usage,
\* otherwise main with configure_environment.  stale: a template file an
\* earlier run left in the directory
DeployStart(args, inherited, stale) ==
  /\ deploy.pc = "idle"
  /\ LET st == ParseArgs(args, [AWS_ENV |-> inherited, exit |-> FALSE]) IN
       deploy' = IF usage(st)
                   THEN [deploy EXCEPT !.pc = "exited", !.code = 1, !.args = args,
                                       !.AWS_ENV = st.AWS_ENV, !.template = stale]
                   ELSE [deploy EXCEPT !.pc = "sts", !.args = args,
                                       !.AWS_ENV = st.AWS_ENV, !.template = stale]
  /\ DeployFrame

\* the step after a command of main that succeeded
AfterAws(pc) ==
  CASE pc = "sts" -> "check_stack_exists"
    [] pc = "check_stack_exists" -> "sync_nested_templates"
    [] pc = "sync_nested_templates" -> "prepare_deploy_template"
    [] pc = "deploy_stack" -> "show_outputs"
    [] pc = "show_outputs" -> "cleanup"

\* an aws command of main runs and succeeds or fails; set -e ends the script at
\* a failure, except in check_stack_exists where the command is the condition
\* of an if
DeployAws(ok) ==
  /\ deploy.pc \in {"sts", "check_stack_exists", "sync_nested_templates",
                    "deploy_stack", "show_outputs"}
  /\ deploy' = IF ok \/ deploy.pc = "check_stack_exists"
                 THEN [deploy EXCEPT !.aws = deploy.aws \cup {deploy.pc},
                                     !.pc = AfterAws(deploy.pc)]
                 ELSE [deploy EXCEPT !.aws = deploy.aws \cup {deploy.pc},
                                     !.pc = "exited", !.code = 1]
  /\ DeployFrame

\* prepare_deploy_template: rm of an existing file, then sed > file.  The
\* redirection creates the file also when sed fails and set -e ends the script
DeployPrepare(ok) ==
  /\ deploy.pc = "prepare_deploy_template"
  /\ deploy' = IF ok
                 THEN [deploy EXCEPT !.template = TRUE, !.written = TRUE,
                                     !.pc = "deploy_stack"]
                 ELSE [deploy EXCEPT !.template = TRUE, !.written = TRUE,
                                     !.pc = "exited", !.code = 1]
  /\ DeployFrame

\* cleanup, then the last echo of main: exit 0
DeployCleanup ==
  /\ deploy.pc = "cleanup"
  /\ deploy' = [deploy EXCEPT !.template = FALSE, !.pc = "done"]
  /\ DeployFrame

\* ----------------------------------------------- lambda/*/build-and-package.sh
Scripts == {"http_api_handler", "websocket_event_handler"}
\* requirements.txt: no line, only lines starting with #, only empty lines, or
\* a line that names a package
Manifests == {"empty", "comments", "blank", "packages"}

\* no run yet.  build: whether the build directory exists, files: what it
\* holds, zip: whether the local zip file exists, zipped: what the zip holds,
\* name: ZIP_FILENAME, remote: the artifacts in the config-storage bucket,
\* param: the value of the parameter-store entry ("earlier": the artifact of an
\* earlier run)
NotPackaged ==
  [pc |-> "idle", script |-> "none", manifest |-> "empty", code |-> 0,
   build |-> FALSE, files |-> {}, zip |-> FALSE, zipped |-> {},
   installed |-> FALSE, uploaded |-> FALSE,
   name |-> "unset", remote |-> {"earlier"}, param |-> "earlier"]

\* grep -v "^#" requirements.txt | grep -v "^$": under pipefail the condition
\* holds when both greps select a line
HasDependencies(manifest) == manifest = "packages"

PackageFrame == UNCHANGED <<backendVars, desktopVars, reply, fault, mobile, helper, deploy>>

\* the script is started in a directory where an earlier run may have left
\* its build directory (stale) and its zip file (staleZip).  The HTTP handler's
\* zip file has a fixed name; the WebSocket handler's is named after the second
\* the run reaches the zip step, so an earlier file is another file.
PackageStart(script, manifest, stale, staleZip) ==
  /\ pkg.pc = "idle"
  /\ pkg' = [pkg EXCEPT !.script = script, !.manifest = manifest,
                        !.build = stale,
                        !.files = IF stale THEN {"stale"} ELSE {},
                        !.zip = staleZip /\ script = "http_api_handler",
                        !.zipped = IF staleZip /\ script = "http_api_handler"
                                     THEN {"stale"} ELSE {},
                        !.pc = "mkdir"]
  /\ PackageFrame

\* rm -rf "$BUILD_DIR"; mkdir -p "$BUILD_DIR"
PackageMkdir ==
  /\ pkg.pc = "mkdir"
  /\ pkg' = [pkg EXCEPT !.build = TRUE, !.files = {}, !.pc = "copy"]
  /\ PackageFrame

\* variant: the parameter is written before the artifact is uploaded
AfterCommand_ParameterFirst(script, manifest, pc) ==
  CASE pc = "copy" -> IF HasDependencies(manifest) THEN "pip" ELSE "zip"
    [] pc = "pip" -> "zip"
    [] pc = "zip" -> IF script = "websocket_event_handler" THEN "put_parameter" ELSE "cleanup"
    [] pc = "put_parameter" -> "s3_cp"
    [] pc = "s3_cp" -> "cleanup"

\* the step after a command that succeeded
AfterCommand(script, manifest, pc) ==
  CASE pc = "copy" -> IF HasDependencies(manifest) THEN "pip" ELSE "zip"
    [] pc = "pip" -> "zip"
    [] pc = "zip" -> IF script = "websocket_event_handler" THEN "s3_cp" ELSE "cleanup"
    [] pc = "s3_cp" -> "put_parameter"
    [] pc = "put_parameter" -> "cleanup"

\* what a command that succeeded leaves in the build directory
FilesAfter(files, pc) ==
  CASE pc = "copy" -> files \cup {"code"}
    [] pc = "pip" -> files \cup {"packages"}
    [] OTHER -> files

\* ZIP_FILENAME: http-api-handler.zip, or websocket-event-handler-{timestamp}.zip
\* with the second the script reaches the line
ZipFilename(script) ==
  IF script = "websocket_event_handler" THEN "websocket-event-handler-now.zip"
                                        ELSE "http-api-handler.zip"

\* cp, pip install, zip, aws s3 cp, aws ssm put-parameter: the command runs
\* and succeeds, or fails and set -e ends the script.  zip -r adds the build
\* directory's files to the archive, which keeps the entries it already had.
PackageCommand(ok) ==
  /\ pkg.pc \in {"copy", "pip", "zip", "s3_cp", "put_parameter"}
  /\ pkg' = IF ok
              THEN [pkg EXCEPT !.files = FilesAfter(pkg.files, pkg.pc),
                               !.installed = pkg.installed \/ pkg.pc = "pip",
                               !.zip = pkg.zip \/ pkg.pc = "zip",
                               !.zipped = IF pkg.pc = "zip" THEN pkg.zipped \cup pkg.files
                                                             ELSE pkg.zipped,
                               !.uploaded = pkg.uploaded \/ pkg.pc = "s3_cp",
                               !.name = IF pkg.pc = "zip" THEN ZipFilename(pkg.script)
                                                          ELSE pkg.name,
                               !.remote = IF pkg.pc = "s3_cp"
                                            THEN pkg.remote \cup {pkg.name}
                                            ELSE pkg.remote,
                               !.param = IF pkg.pc = "put_parameter" THEN pkg.name
                                                                     ELSE pkg.param,
                               !.pc = AfterCommand(pkg.script, pkg.manifest, pkg.pc)]
              ELSE [pkg EXCEPT !.pc = "exited", !.code = 1]
  /\ PackageFrame

\* "Clean up" and the closing lines: rm -rf of the build directory; the
\* WebSocket handler's script also removes the zip file it uploaded
PackageCleanup ==
  /\ pkg.pc = "cleanup"
  /\ pkg' = [pkg EXCEPT !.build = FALSE, !.files = {},
                        !.zip = pkg.zip /\ pkg.script # "websocket_event_handler",
                        !.pc = "done"]
  /\ PackageFrame

\* ------------------------------------------- Mobile Upload Page: mobile-upload.js
\* a request of the page that has not settled yet
NoCall == [kind |-> "none", target |-> NoKey]
GetCall == [kind |-> "get", target |-> NoKey]
PutCall(url) == [kind |-> "put", target |-> url]

\* the page before DOMContentLoaded: the state object with every field null,
\* no view shown, nothing requested
PageClosed ==
  [view |-> "closed", param |-> MissingParam, sessionId |-> MissingParam,
   uploadUrl |-> NoKey, uploadKey |-> NoKey, file |-> FALSE,
   call |-> NoCall, gets |-> 0, puts |-> 0]

\* setFile(file): state.file, and uploadButton.disabled = !file
setFile(m, file) == [m EXCEPT !.file = file]

\* loadUploadUrl() up to its await: showView("loading"), then the GET
loadUploadUrl(m) ==
  [m EXCEPT !.view = "loading", !.call = GetCall, !.gets = m.gets + 1]

\* init() without the check of the sessionId it read
init_NoCheck(m) ==
  loadUploadUrl(setFile([m EXCEPT !.sessionId = m.param], FALSE))

\* init() up to its await: read sessionId from the location; without one,
\* showError and return; otherwise setFile(null) and loadUploadUrl()
init(m) ==
  IF m.param = MissingParam
    THEN [m EXCEPT !.sessionId = m.param, !.view = "error"]
    ELSE loadUploadUrl(setFile([m EXCEPT !.sessionId = m.param], FALSE))

\* uploadFile() with a fresh authorization fetched before the write
uploadFile_Refetch(m) == loadUploadUrl(m)

\* uploadFile() without its two early returns
uploadFile_NoChecks(m) ==
  [m EXCEPT !.view = "uploading", !.call = PutCall(m.uploadUrl),
            !.puts = m.puts + 1]

\* uploadFile() up to its await: the two early returns, then
\* showView("uploading") and the PUT to state.uploadUrl
uploadFile(m) ==
  IF ~m.file THEN [m EXCEPT !.view = "error"]
  ELSE IF m.uploadUrl = NoKey THEN [m EXCEPT !.view = "error"]
  ELSE [m EXCEPT !.view = "uploading", !.call = PutCall(m.uploadUrl),
                 !.puts = m.puts + 1]

\* what every action of the page leaves alone
MobileFrame == UNCHANGED <<backendVars, desktopVars, reply, fault, toolVars>>

\* DOMContentLoaded: the page is opened at .../uploads/?sessionId=p
MobileLoad(p) ==
  /\ mobile.view = "closed"
  /\ p \in Sendable
  /\ mobile' = init([mobile EXCEPT !.param = p])
  /\ MobileFrame

\* the GET /upload-url resolves with an ok response: an authorization the
\* service issued for the session; init() goes on to showView("ready")
MobileGetOk(key) ==
  /\ mobile.call = GetCall
  /\ key \in urls /\ SessionOfKey(key) = mobile.sessionId
  /\ mobile' = [mobile EXCEPT !.uploadUrl = key, !.uploadKey = key,
                              !.view = "ready", !.call = NoCall]
  /\ MobileFrame

\* the GET that fails and leaves the page in the loading view
MobileGetFailed_Stuck ==
  /\ mobile.call = GetCall
  /\ mobile' = [mobile EXCEPT !.call = NoCall]
  /\ MobileFrame

\* the GET rejects or resolves with a response that is not ok: loadUploadUrl
\* throws and the catch of init() calls showError
MobileGetFailed ==
  /\ mobile.call = GetCall
  /\ mobile' = [mobile EXCEPT !.view = "error", !.call = NoCall]
  /\ MobileFrame

\* fileInput change: setFile(files[0]), null when the picker was cancelled
MobileSelectFile(file) ==
  /\ mobile.view = "ready"
  /\ mobile' = setFile(mobile, file)
  /\ MobileFrame

\* uploadButton click; the button is disabled while no file is selected
MobileUploadClick ==
  /\ mobile.view = "ready" /\ mobile.file
  /\ mobile.gets + mobile.puts < MaxRequests
  /\ mobile' = uploadFile(mobile)
  /\ MobileFrame

\* the PUT resolves with an ok response, the object being in the bucket:
\* showView("success")
MobilePutOk ==
  /\ mobile.call.kind = "put"
  /\ mobile.call.target \in objects
  /\ mobile' = [mobile EXCEPT !.view = "success", !.call = NoCall]
  /\ MobileFrame

\* the PUT that fails and leaves the page where it was
MobilePutFailed_Stuck ==
  /\ mobile.call.kind = "put"
  /\ mobile' = [mobile EXCEPT !.call = NoCall]
  /\ MobileFrame

\* the PUT rejects or resolves with a response that is not ok: uploadFile
\* throws and the catch of the click handler calls showError
MobilePutFailed ==
  /\ mobile.call.kind = "put"
  /\ mobile' = [mobile EXCEPT !.view = "error", !.call = NoCall]
  /\ MobileFrame

\* retryButton click: init()
MobileRetry ==
  /\ mobile.view = "error"
  /\ mobile.gets + mobile.puts < MaxRequests
  /\ mobile' = init(mobile)
  /\ MobileFrame

\* ------------------------------------------------------------ specifications
Init ==
  /\ now = 1
  /\ store = [s \in ValidIds |-> Absent]
  /\ nextId = 0
  /\ inv = EmptyBag
  /\ gw = [c \in Conns |-> "none"]
  /\ wire = [c \in Conns |-> <<>>]
  /\ urls = {}
  /\ objects = {}
  /\ currentView = "initial"
  /\ sessionId = 0
  /\ wsClient = 0
  /\ qrText = NoUrl
  /\ fetch = [i \in AppConns |-> [st |-> "idle", sid |-> 0]]
  /\ sock = [c \in Conns |-> NoSocket]
  /\ lastSocket = 0
  /\ reply = NoResponse
  /\ fault = "ok"
  /\ mobile = PageClosed
  /\ helper = NewClient
  /\ deploy = NotRun
  /\ pkg = NotPackaged

\* the HTTP API and the storage events driven by arbitrary callers, at one
\* clock reading
HttpNext ==
  \/ ExtCreate
  \/ \E p \in Params : AuthRead(p)
  \/ \E k \in Keys : Upload(k)
  \/ \E r \in Running : AuthWrite(r)
  \/ \E r \in Running : S3Read(r)
  \/ \E r \in Running : S3Write(r)
  \/ Tick

HttpSpec == Init /\ [][HttpNext]_vars

\* one session and the connections arbitrary clients open, close and read
\* from, at one clock reading

ChannelNext ==
  \/ nextId = 0 /\ ExtCreate
  \/ \E p \in Params : AuthRead(p)
  \/ \E k \in Keys : Upload(k)
  \/ \E c \in ExtConns, p \in Params : ExtConnect(c, p)
  \/ \E c \in ExtConns : ExtClose(c)
  \/ \E c \in ExtConns : StrayDisconnect(c)
  \/ \E c \in ExtConns : ExtReceive(c)
  \/ \E r \in Running : AuthWrite(r)
  \/ \E r \in Running : ConnectRead(r)
  \/ \E r \in Running : ConnectWrite(r)
  \/ \E r \in Running : DisconnectRead(r)
  \/ \E r \in Running : DisconnectWrite(r)
  \/ \E r \in Running : S3Read(r)
  \/ \E r \in Running : S3Write(r)

ChannelSpec == Init /\ [][ChannelNext]_vars

\* both entry points with every request and event they can be invoked with,
\* one session and one connection: the routed operations, the requests and
\* events no handler is selected for, and the send that raises
EntryNext ==
  \/ nextId = 0 /\ ExtCreate
  \/ \E p \in Params : AuthRead(p)
  \/ \E k \in Keys : Upload(k)
  \/ \E p \in Params : ExtConnect(1, p)
  \/ ExtClose(1)
  \/ ExtReceive(1)
  \/ \E r \in Running : AuthWrite(r)
  \/ \E r \in Running : ConnectRead(r)
  \/ \E r \in Running : ConnectWrite(r)
  \/ \E r \in Running : DisconnectRead(r)
  \/ \E r \in Running : DisconnectWrite(r)
  \/ \E r \in Running : S3Read(r)
  \/ \E r \in Running : S3Write(r)
  \/ \E r \in Running : S3WriteRaises(r)
  \/ \E method \in Methods, path \in Paths : HttpUnrouted(method, path)
  \/ \E ev \in Events : EventUnrouted(ev)

EntrySpec == Init /\ [][EntryNext]_vars

\* one session and one connection while the clock advances and the table's
\* time-to-live deletes expired items
Quiet == BagCardinality(inv) < MaxRunning

ExpiryNext ==
  \/ nextId = 0 /\ ExtCreate
  \/ Quiet /\ \E p \in Params : AuthRead(p)
  \/ Quiet /\ \E k \in Keys : Upload(k)
  \/ Quiet /\ \E p \in Params : ExtConnect(1, p)
  \/ Quiet /\ ExtClose(1)
  \/ Quiet /\ StrayDisconnect(1)
  \/ ExtReceive(1)
  \/ \E r \in Running : AuthWrite(r)
  \/ \E r \in Running : ConnectRead(r)
  \/ \E r \in Running : ConnectWrite(r)
  \/ \E r \in Running : DisconnectRead(r)
  \/ \E r \in Running : DisconnectWrite(r)
  \/ \E r \in Running : S3Read(r)
  \/ \E r \in Running : S3Write(r)
  \/ Tick
  \/ \E s \in ValidIds : Purge(s)

ExpirySpec == Init /\ [][ExpiryNext]_vars

\* the phone scans the QR code that is shown, once per session
ScanQr ==
  /\ qrText # NoUrl
  /\ CallsOf("auth") = {}
  /\ \A k \in urls : SessionOfKey(k) # qrText.sessionId

\* the desktop page, the phone and the two services, at one clock reading
Next ==
  \/ NextFetch <= MaxStarts /\ startUpload
  \/ \E i \in AppConns : CreateSessionDone(i)
  \/ \E i \in AppConns : CreateSessionFailed(i)
  \/ \E i \in AppConns : StartUploadResumed(i)
  \/ \E i \in AppConns : StartUploadNoLibrary(i)
  \/ \E i \in AppConns : StartUploadFailed(i)
  \/ cancelUpload
  \/ ResetClick
  \/ NewUploadClick
  \/ \E k \in AppConns : SocketMessage(k)
  \/ \E k \in AppConns, f \in OtherFrames : SocketFrame(k, f)
  \/ \E k \in AppConns : SocketError(k)
  \/ \E k \in AppConns : SocketClosed(k)
  \/ \E k \in AppConns : SocketPeerClose(k)
  \/ ScanQr /\ AuthRead(qrText.sessionId)
  \/ \E k \in Keys : Upload(k)
  \/ \E r \in Running : AuthWrite(r)
  \/ \E r \in Running : ConnectRead(r)
  \/ \E r \in Running : ConnectWrite(r)
  \/ \E r \in Running : DisconnectRead(r)
  \/ \E r \in Running : DisconnectWrite(r)
  \/ \E r \in Running : S3Read(r)
  \/ \E r \in Running : S3Write(r)

Spec == Init /\ [][Next]_vars

\* the page and its sockets against a server that may push any frame: those of
\* OtherFrames and the completion notice of any session created so far
PageFrames ==
  OtherFrames \cup {CompletionFrame(s, UploadKeyFor(s, now)) : s \in 1..nextId}

PageNext ==
  \/ NextFetch <= MaxStarts /\ startUpload
  \/ \E i \in AppConns : CreateSessionDone(i)
  \/ \E i \in AppConns : CreateSessionFailed(i)
  \/ \E i \in AppConns : StartUploadResumed(i)
  \/ \E i \in AppConns : StartUploadNoLibrary(i)
  \/ \E i \in AppConns : StartUploadFailed(i)
  \/ cancelUpload
  \/ ResetClick
  \/ NewUploadClick
  \/ \E k \in AppConns, f \in PageFrames : SocketFrame(k, f)
  \/ \E k \in AppConns : SocketError(k)
  \/ \E k \in AppConns : SocketClosed(k)
  \/ \E k \in AppConns : SocketPeerClose(k)
  \/ \E r \in Running : ConnectRead(r)
  \/ \E r \in Running : ConnectWrite(r)
  \/ \E r \in Running : DisconnectRead(r)
  \/ \E r \in Running : DisconnectWrite(r)

PageSpec == Init /\ [][PageNext]_vars

\* the page of PageSpec when the user starts MaxRetries uploads: enough for a
\* retry from the error view while an earlier createSession() is pending
RetryNext ==
  \/ NextFetch <= MaxRetries /\ startUpload
  \/ PageNext

RetrySpec == Init /\ [][RetryNext]_vars

\* the page started, cancelled and started again up to MaxRetries times, its
\* channels attached by the backend, and a server that may push the completion
\* notice of any session on any open channel
StaleNext ==
  \/ NextFetch <= MaxRetries /\ startUpload
  \/ \E i \in AppConns : CreateSessionDone(i)
  \/ \E i \in AppConns : StartUploadResumed(i)
  \/ cancelUpload
  \/ \E k \in AppConns, f \in PageFrames \ OtherFrames : SocketFrame(k, f)
  \/ \E k \in AppConns : SocketClosed(k)
  \/ \E r \in Running : ConnectRead(r)
  \/ \E r \in Running : ConnectWrite(r)

StaleSpec == Init /\ [][StaleNext]_vars

\* Every network call, channel attach and storage event is eventually
\* processed: a pending createSession() settles and startUpload resumes, a
\* running invocation takes its next step, a posted frame is delivered and a
\* socket that is closing closes.  Clicks, uploads, scans, socket errors and
\* idle timeouts may or may not happen.
Processing ==
  \/ \E i \in AppConns : CreateSessionDone(i) \/ CreateSessionFailed(i)
  \/ \E i \in AppConns : StartUploadResumed(i) \/ StartUploadNoLibrary(i)
  \/ \E i \in AppConns : StartUploadFailed(i)
  \/ \E r \in Running : AuthWrite(r) \/ ConnectRead(r) \/ ConnectWrite(r)
  \/ \E r \in Running : DisconnectRead(r) \/ DisconnectWrite(r)
  \/ \E r \in Running : S3Read(r) \/ S3Write(r)
  \/ \E k \in AppConns : SocketMessage(k) \/ SocketClosed(k)

\* the page, the phone and the services when the user starts MaxAttempts uploads
FairNext ==
  \/ NextFetch <= MaxAttempts /\ startUpload
  \/ \E i \in AppConns : CreateSessionDone(i)
  \/ \E i \in AppConns : CreateSessionFailed(i)
  \/ \E i \in AppConns : StartUploadResumed(i)
  \/ \E i \in AppConns : StartUploadNoLibrary(i)
  \/ \E i \in AppConns : StartUploadFailed(i)
  \/ cancelUpload
  \/ ResetClick
  \/ NewUploadClick
  \/ \E k \in AppConns : SocketMessage(k)
  \/ \E k \in AppConns, f \in OtherFrames : SocketFrame(k, f)
  \/ \E k \in AppConns : SocketError(k)
  \/ \E k \in AppConns : SocketClosed(k)
  \/ \E k \in AppConns : SocketPeerClose(k)
  \/ ScanQr /\ AuthRead(qrText.sessionId)
  \/ \E k \in Keys : Upload(k)
  \/ \E r \in Running : AuthWrite(r)
  \/ \E r \in Running : ConnectRead(r)
  \/ \E r \in Running : ConnectWrite(r)
  \/ \E r \in Running : DisconnectRead(r)
  \/ \E r \in Running : DisconnectWrite(r)
  \/ \E r \in Running : S3Read(r)
  \/ \E r \in Running : S3Write(r)

FairSpec == Init /\ [][FairNext]_vars /\ WF_vars(Processing)

\* what the network owes the Mobile Upload Page: a request it awaits settles
MobileSettles ==
  \/ \E k \in Keys : MobileGetOk(k)
  \/ MobileGetFailed
  \/ MobilePutOk
  \/ MobilePutFailed

\* what the network and the event loop owe the desktop page: createSession()
\* settles and startUpload resumes
DesktopSettles ==
  \/ \E i \in AppConns : CreateSessionDone(i) \/ CreateSessionFailed(i)
  \/ \E i \in AppConns : StartUploadResumed(i) \/ StartUploadNoLibrary(i)
  \/ \E i \in AppConns : StartUploadFailed(i)

\* one start of the page, and the services, when the QR code that is shown can
\* be scanned more than once while the clock advances: the session can see
\* several uploads
MissedNext ==
  \/ NextFetch = 1 /\ startUpload
  \/ \E i \in AppConns : CreateSessionDone(i)
  \/ \E i \in AppConns : StartUploadResumed(i)
  \/ cancelUpload
  \/ ResetClick
  \/ NewUploadClick
  \/ \E k \in AppConns : SocketMessage(k)
  \/ \E k \in AppConns : SocketError(k)
  \/ \E k \in AppConns : SocketClosed(k)
  \/ qrText # NoUrl /\ AuthRead(qrText.sessionId)
  \/ \E k \in Keys : Upload(k)
  \/ \E r \in Running : AuthWrite(r)
  \/ \E r \in Running : ConnectRead(r)
  \/ \E r \in Running : ConnectWrite(r)
  \/ \E r \in Running : DisconnectRead(r)
  \/ \E r \in Running : DisconnectWrite(r)
  \/ \E r \in Running : S3Read(r)
  \/ \E r \in Running : S3Write(r)
  \/ Tick

MissedSpec == Init /\ [][MissedNext]_vars

\* both pages: the desktop page with MaxAttempts starts, its sockets failing
\* or not, and the Mobile Upload Page with the handlers that serve its requests
PagesNext ==
  \/ NextFetch <= MaxAttempts /\ startUpload
  \/ DesktopSettles
  \/ cancelUpload
  \/ ResetClick
  \/ \E k \in AppConns : SocketError(k)
  \/ \E k \in AppConns : SocketClosed(k)
  \/ \E p \in Params : MobileLoad(p)
  \/ mobile.call = GetCall /\ AuthRead(mobile.sessionId)
  \/ \E r \in Running : AuthWrite(r)
  \/ mobile.call.kind = "put" /\ Upload(mobile.call.target)
  \/ MobileSettles
  \/ \E f \in BOOLEAN : MobileSelectFile(f)
  \/ MobileUploadClick
  \/ MobileRetry

PagesSpec ==
  Init /\ [][PagesNext]_vars /\ WF_vars(DesktopSettles) /\ WF_vars(MobileSettles)

\* the Mobile Upload Page against the HTTP API and the bucket
MobileNext ==
  \/ ExtCreate
  \/ \E p \in Params : AuthRead(p)
  \/ \E r \in Running : AuthWrite(r)
  \/ \E k \in Keys : Upload(k)
  \/ \E p \in Params : MobileLoad(p)
  \/ \E k \in Keys : MobileGetOk(k)
  \/ MobileGetFailed
  \/ \E f \in BOOLEAN : MobileSelectFile(f)
  \/ MobileUploadClick
  \/ MobilePutOk
  \/ MobilePutFailed
  \/ MobileRetry

MobileSpec == Init /\ [][MobileNext]_vars

\* the Mobile Upload Page of one session while the clock advances, with the
\* handlers that serve the requests it sends
UploadNext ==
  \/ nextId = 0 /\ ExtCreate
  \/ Tick
  \/ \E p \in Params : MobileLoad(p)
  \/ mobile.call = GetCall /\ AuthRead(mobile.sessionId)
  \/ \E r \in Running : AuthWrite(r)
  \/ mobile.call.kind = "put" /\ Upload(mobile.call.target)
  \/ MobileSettles
  \/ \E f \in BOOLEAN : MobileSelectFile(f)
  \/ MobileUploadClick
  \/ MobileRetry

UploadSpec == Init /\ [][UploadNext]_vars

\* a WebSocketClient instance under any sequence of calls and socket events
HelperNext ==
  \/ HelperConnect
  \/ HelperSend
  \/ HelperClose
  \/ \E k \in 1..MaxCalls : HelperSocketOpens(k)
  \/ \E k \in 1..MaxCalls : HelperSocketEnds(k)

HelperSpec == Init /\ [][HelperNext]_vars

\* a run of the deploy script with any command line
DeployNext ==
  \/ \E args \in ArgLists, inherited \in Inherited, stale \in BOOLEAN :
       DeployStart(args, inherited, stale)
  \/ \E ok \in BOOLEAN : DeployAws(ok)
  \/ \E ok \in BOOLEAN : DeployPrepare(ok)
  \/ DeployCleanup

DeploySpec == Init /\ [][DeployNext]_vars

\* a run of either packaging script with any dependency manifest
PackageNext ==
  \/ \E script \in Scripts, manifest \in Manifests, stale \in BOOLEAN, staleZip \in BOOLEAN :
       PackageStart(script, manifest, stale, staleZip)
  \/ PackageMkdir
  \/ \E ok \in BOOLEAN : PackageCommand(ok)
  \/ PackageCleanup

PackageSpec == Init /\ [][PackageNext]_vars

\* ------------------------------------------------------------ desktop claims
\* an upload for session s is in the bucket
Landed(s) == \E k \in objects : SessionOfKey(k) = s

\* the page shows the QR code of session s
Waiting(s) == currentView = "qr" /\ sessionId = s

\* the completion notice of session s is posted to the open socket the page holds
Notified(s) ==
  /\ wsClient # 0
  /\ sock[wsClient].rs = "OPEN"
  /\ \E n \in 1..Len(wire[wsClient]) : IsCompletion(wire[wsClient][n], s)

\* the page shows success, or it was cancelled (initial), failed (error) or
\* turned to another session
Settled(s) ==
  currentView = "success" \/ currentView \in {"initial", "error"} \/ sessionId # s

Handles(k, f) ==
  \/ SocketMessage(k) /\ f = Head(wire[k])
  \/ f \in PageFrames /\ SocketFrame(k, f)

FrameMatches(f) ==
  f.kind = "object" /\ f.action = "UPLOAD_COMPLETED" /\ f.sessionId = sessionId

FramesAt(k) == PageFrames \cup (IF wire[k] = <<>> THEN {} ELSE {Head(wire[k])})

C2_SuccessOnlyOnMatch ==
  [][/\ (currentView # "success" /\ currentView' = "success") =>
          \E k \in AppConns : \E f \in FramesAt(k) : Handles(k, f) /\ FrameMatches(f)
     /\ \A k \in AppConns : \A f \in FramesAt(k) :
          (Handles(k, f) /\ ~FrameMatches(f)) =>
             UNCHANGED <<currentView, sessionId, wsClient, sock>>]_vars

C2_Witness == currentView = "success" /\ sessionId # 0 /\ wsClient = 0

\* C3: whenever a QR code is shown, its text is the Mobile Upload Page address
\* of the session and not the upload-authorization endpoint.
C3_QrPointsAtMobilePage ==
  qrText # NoUrl => qrText = MobilePageUrl(qrText.sessionId)

\* C4: in the initial, success and error views the page holds no client and
\* the socket it opened last has had close() called on it or has closed.
SocketShut(k) == sock[k].rs \in {"CLOSING", "CLOSED"}

C4_NoChannelOutsideQr ==
  currentView \in {"initial", "success", "error"} =>
    wsClient = 0 /\ (lastSocket # 0 => SocketShut(lastSocket))

C4_Witness == currentView = "initial" /\ lastSocket # 0

Rank(status) ==
  CASE status = "AWAITING_SCAN" -> 1
    [] status = "UPLOAD_REQUESTED" -> 2
    [] status = "COMPLETED" -> 3
    [] OTHER -> 0

\* C6: in no step does the stored status of a session move back, from
\* COMPLETED to UPLOAD_REQUESTED or AWAITING_SCAN or from UPLOAD_REQUESTED to
\* AWAITING_SCAN.
C6_StatusOnlyAdvances ==
  [][\A s \in ValidIds :
       (store[s].present /\ store'[s].present) =>
          Rank(store'[s].status) >= Rank(store[s].status)]_vars

\* C7: the update of a successful upload-authorization for S leaves the record
\* of S with status UPLOAD_REQUESTED and the issued key under S's prefix, and
\* the update of a storage-completion event for a key of S leaves it with
\* status COMPLETED, that key as uploadKey and completedAt set.
C7_RoundTrip ==
  [][\A r \in Running :
       /\ AuthWrite(r) =>
            /\ store'[r.sid].status = "UPLOAD_REQUESTED"
            /\ store'[r.sid].uploadKey = r.key
            /\ r.key[2] = r.sid
            /\ r.key \in urls'
       /\ S3Write(r) =>
            /\ store'[r.key[2]].status = "COMPLETED"
            /\ store'[r.key[2]].uploadKey = r.key
            /\ store'[r.key[2]].completedAt = now
            /\ store'[r.key[2]].createdAt = store[r.key[2]].createdAt]_vars

C7_Witness ==
  \E s \in 1..MaxSessions :
    /\ store[s].status = "COMPLETED"
    /\ store[s].uploadKey \in objects
    /\ store[s].completedAt # NoTime
    /\ store[s].createdAt # NoTime

\* C8: a completion event for session S that found connection c attached to S,
\* with c still established, appends exactly one frame to c, carrying
\* sessionId S, and nothing to any other connection; one that found no
\* connection attached posts nothing; either way the status becomes COMPLETED.
C8_OnePush ==
  [][\A r \in Running :
       /\ (S3Read(r) /\ store[r.sid].present) =>
            \E r2 \in BagToSet(inv') :
              r2.op = "s3" /\ r2.pc = "write" /\ r2.snap = store[r.sid].wsConnectionId
       /\ S3Write(r) =>
            /\ store'[r.sid].status = "COMPLETED"
            /\ IF r.snap # NoConn /\ gw[r.snap] = "up"
                 THEN /\ Len(wire'[r.snap]) = Len(wire[r.snap]) + 1
                      /\ SubSeq(wire'[r.snap], 1, Len(wire[r.snap])) = wire[r.snap]
                      /\ wire'[r.snap][Len(wire'[r.snap])].action = "UPLOAD_COMPLETED"
                      /\ wire'[r.snap][Len(wire'[r.snap])].sessionId = r.sid
                      /\ \A d \in Conns : d # r.snap => wire'[d] = wire[d]
                 ELSE wire' = wire]_vars

C8_Witness ==
  \E c \in ExtConns :
    /\ Len(wire[c]) = 1
    /\ wire[c][1].sessionId = 1
    /\ store[1].status = "COMPLETED"
    /\ store[1].wsConnectionId = c

\* C9: the attach handler rejects a connection whose sessionId is missing,
\* malformed, names no record or names an expired record, and leaves the store
\* as it is; it accepts one whose sessionId names an unexpired record, and its
\* update leaves that record with the connection's id as wsConnectionId.
C9_Attach ==
  [][\A r \in Running :
       /\ (ConnectRead(r) /\ r.sid \notin ValidIds) =>
            gw'[r.conn] = "rejected" /\ store' = store
       /\ (ConnectRead(r) /\ r.sid \in ValidIds) =>
            /\ store' = store
            /\ (~store[r.sid].present) => gw'[r.conn] = "rejected"
            /\ (store[r.sid].present /\ store[r.sid].expiresAt # NoTime
                  /\ now > store[r.sid].expiresAt) => gw'[r.conn] = "rejected"
            /\ (store[r.sid].present /\ store[r.sid].expiresAt # NoTime
                  /\ now <= store[r.sid].expiresAt) =>
                   /\ gw'[r.conn] # "rejected"
                   /\ \E r2 \in BagToSet(inv') :
                        r2.op = "connect" /\ r2.pc = "write" /\ r2.conn = r.conn
       /\ ConnectWrite(r) =>
            /\ store'[r.sid].wsConnectionId = r.conn
            /\ gw'[r.conn] \in {"up", "gone"}]_vars

C9_Witness ==
  /\ gw[1] = "up"
  /\ \E s \in 1..MaxSessions : store[s].present /\ store[s].wsConnectionId = 1

\* C10: a detach invocation for a connection that no record names ends at once
\* with the store as it was, every time it is run.
Unattached(c) == \A s \in ValidIds : ~(store[s].present /\ store[s].wsConnectionId = c)

C10_DetachNoOp ==
  [][\A r \in Running :
       (DisconnectRead(r) /\ Unattached(r.conn)) =>
          /\ store' = store
          /\ inv' = Finish(inv, r)
          /\ UNCHANGED <<gw, wire>>]_vars

C10_Witness ==
  \E r \in CallsOf("disconnect") :
    r.pc = "read" /\ gw[r.conn] = "gone" /\ Unattached(r.conn) /\ nextId > 0

C12_ExpiredSession ==
  [][\A p \in ValidIds :
       (/\ store[p].present
        /\ store[p].expiresAt # NoTime
        /\ now > store[p].expiresAt
        /\ AuthRead(p))
         => /\ reply'.code = 400
            /\ reply'.key = NoKey
            /\ UNCHANGED <<store, urls, inv>>]_vars

C12_Witness ==
  /\ reply = Response(400, NoKey)
  /\ \E p \in ValidIds :
       /\ store[p].present /\ store[p].status # "COMPLETED"
       /\ store[p].expiresAt # NoTime /\ now > store[p].expiresAt

\* C13: an authorization request for a session whose stored status is
\* COMPLETED is answered 400; no authorization is issued and the record keeps
\* status COMPLETED and its uploadKey.
C13_CompletedSession ==
  [][\A p \in ValidIds :
       (/\ store[p].present
        /\ store[p].status = "COMPLETED"
        /\ AuthRead(p))
         => /\ reply'.code = 400
            /\ reply'.key = NoKey
            /\ UNCHANGED <<store, urls, inv>>]_vars

C13_Witness ==
  /\ reply = Response(400, NoKey)
  /\ \E p \in ValidIds :
       /\ store[p].present /\ store[p].status = "COMPLETED"
       /\ store[p].expiresAt # NoTime /\ now <= store[p].expiresAt

\* C14: the uploadKey an authorization for session S returns begins with
\* session-uploads/S/, and the completion event of an object stored under a
\* key issued to S updates the record of S and the record of no other session.
C14_KeyRoundTrip ==
  /\ [][\A r \in Running :
          AuthWrite(r)
            => /\ reply'.key \in urls'
               /\ reply'.key[1] = "session-uploads"
               /\ reply'.key[2] = r.sid]_vars
  /\ [][\A r \in Running :
          S3Write(r)
            => /\ r.key \in urls
               /\ store'[r.key[2]].status = "COMPLETED"
               /\ store'[r.key[2]].uploadKey = r.key
               /\ \A s \in ValidIds : s # r.key[2] => store'[s] = store[s]]_vars

C14_Witness ==
  \E k \in objects :
    /\ k \in urls
    /\ store[k[2]].status = "COMPLETED" /\ store[k[2]].uploadKey = k
    /\ \E s \in ValidIds : s # k[2] /\ store[s].present /\ store[s].status # "COMPLETED"

\* C15: any two authorizations issued for the same session, concurrent ones
\* included, target different object keys: an authorization that is being
\* issued never names a key an earlier authorization already named.
C15_FreshKeys ==
  [][\A r \in Running : AuthWrite(r) => r.key \notin urls]_vars

\* C16: a push notification that is not delivered, because the connection is
\* gone or because the send fails, is dropped: the completion invocation that
\* attempted it does not end with an error and the record is COMPLETED.
C16_UndeliveredIsDropped ==
  [][\A r \in Running :
       (/\ r.op = "s3" /\ r.pc = "write" /\ r.snap # NoConn
        /\ inv' = Finish(inv, r)
        /\ wire' = wire)
         => /\ fault' # "raised"
            /\ store'[r.sid].status = "COMPLETED"]_vars

\* C17: every inbound request or event either selects one handler or is
\* answered with an explicit rejection: 404 from the HTTP API entry point, 400
\* from the WebSocket and event entry point, a route key other than connect and
\* disconnect included.
C17_EveryEventAnswered ==
  /\ [][\A method \in Methods, path \in Paths :
          HttpUnrouted(method, path) => reply'.code = 404]_vars
  /\ [][\A ev \in Events : EventUnrouted(ev) => fault' = "bad_request"]_vars

\* C18: a Mobile Upload Page loaded without a sessionId shows the error view
\* and has sent no request, after any number of retries as well.
C18_NoSessionNoRequest ==
  (mobile.view # "closed" /\ mobile.param = MissingParam)
    => /\ mobile.view = "error"
       /\ mobile.call = NoCall
       /\ mobile.gets = 0 /\ mobile.puts = 0

C18_Witness ==
  /\ mobile.view = "error" /\ mobile.param = MissingParam
  /\ mobile.sessionId = MissingParam
  /\ nextId > 0

\* C19 as stated: once the page holds an authorization it never sends the
\* backend another request, over any sequence of file selections, upload
\* actions, failures and retries.
C19_AsStated ==
  [][mobile.uploadUrl # NoKey => mobile'.gets = mobile.gets]_vars

\* C19: a request for an authorization is sent only by initialization, on the
\* page's load or on a retry from the error view; selecting a file sends
\* nothing and the upload action sends only the direct write, to the location
\* the page was authorized for.
C19_OnlyInitFetches ==
  [][/\ mobile'.gets # mobile.gets
          => /\ mobile.view \in {"closed", "error"}
             /\ mobile'.view = "loading"
             /\ mobile'.gets = mobile.gets + 1
             /\ mobile'.puts = mobile.puts
     /\ mobile'.puts # mobile.puts
          => /\ mobile.view = "ready" /\ mobile.file
             /\ mobile.uploadUrl \in urls
             /\ mobile'.call = [kind |-> "put", target |-> mobile.uploadUrl]
             /\ mobile'.puts = mobile.puts + 1
             /\ mobile'.gets = mobile.gets]_vars

C19_Witness ==
  /\ mobile.gets = 2 /\ mobile.puts = 1
  /\ mobile.view = "ready" /\ mobile.uploadUrl \in urls

\* C20: a request of the page that settles without what it asked for (no
\* authorization issued for the session, no object stored) leaves the page in
\* the error view, every settled request leaves it in the error view or in the
\* view of its success, and a retry from the error view re-reads the sessionId,
\* clears the file, shows the loading view and sends the authorization request.
C20_FailuresAndRetry ==
  [][/\ (mobile.call.kind = "get" /\ mobile'.call.kind = "none")
          => /\ mobile'.view \in {"ready", "error"}
             /\ (\A k \in urls : k[2] # mobile.sessionId) => mobile'.view = "error"
     /\ (mobile.call.kind = "put" /\ mobile'.call.kind = "none")
          => /\ mobile'.view \in {"success", "error"}
             /\ mobile.call.target \notin objects => mobile'.view = "error"
     /\ (mobile.view = "error" /\ mobile' # mobile)
          => /\ mobile'.sessionId = mobile.param
             /\ mobile'.view = "loading"
             /\ ~mobile'.file
             /\ mobile'.call.kind = "get"
             /\ mobile'.gets = mobile.gets + 1]_vars

C20_Witness ==
  /\ mobile.view = "loading" /\ mobile.call.kind = "get"
  /\ mobile.gets = 2 /\ mobile.puts = 1
  /\ mobile.uploadUrl \notin objects

\* C21: over any sequence of connect() and close() calls the helper has at
\* most one socket that it created and has not closed, the one it holds.
C21_OneSocket ==
  /\ \A k \in 1..helper.created : k \notin helper.closed => k = helper.socket
  /\ \A k \in 1..helper.created :
       helper.ws[k].rs \in {"CONNECTING", "OPEN"} => k = helper.socket

C21_Witness ==
  /\ helper.created >= 2
  /\ helper.socket = helper.created
  /\ helper.ws[helper.socket].rs = "OPEN"
  /\ helper.closed = 1..(helper.created - 1)

\* C22: send(data) transmits, on the held socket, only when a socket is held
\* and is OPEN, and otherwise changes nothing; close() clears the handle and
\* leaves no held socket connecting or open, so every send until the next
\* connect() transmits nothing; close() without a held socket changes nothing.
C22_SendAndClose ==
  [][/\ (helper'.calls # helper.calls /\ helper'.last = "send")
          => IF helper.socket # 0 /\ helper.ws[helper.socket].rs = "OPEN"
               THEN helper' = [helper EXCEPT !.sent = Append(helper.sent, helper.socket),
                                             !.calls = helper.calls + 1,
                                             !.last = "send"]
               ELSE helper' = [helper EXCEPT !.calls = helper.calls + 1,
                                             !.last = "send"]
     /\ (helper'.calls # helper.calls /\ helper'.last = "close")
          => /\ helper'.socket = 0
             /\ helper'.sent = helper.sent
             /\ helper.socket = 0 => helper'.ws = helper.ws
             /\ helper.socket # 0 =>
                  helper'.ws[helper.socket].rs \notin {"CONNECTING", "OPEN"}
     /\ (helper.socket = 0 /\ helper'.socket = 0) => helper'.sent = helper.sent]_vars

C22_Witness ==
  /\ helper.last = "send" /\ helper.socket = 0
  /\ helper.sent = <<1>>
  /\ 1 \in helper.closed

\* C23: a run of the deploy script that is not given the environment dev (a
\* command line on which the word dev does not occur) invokes no aws command
\* and, once it has ended, has exited non-zero.
C23_NoDeployWithoutDev ==
  (deploy.pc # "idle" /\ \A i \in 1..Len(deploy.args) : deploy.args[i] # "dev")
    => /\ deploy.aws = {}
       /\ deploy.pc = "exited" /\ deploy.code # 0

\* C24: every run of the deploy script that has written the temporary
\* template and has ended, with or without a failure, has removed the file.
C24_TemplateRemoved ==
  (deploy.pc \in {"exited", "done"} /\ deploy.written) => ~deploy.template

\* C25: a run of either packaging script that succeeds with an empty or
\* comment-only manifest has installed no dependency and leaves neither the
\* build directory nor a local zip file.
C25_CleanPackaging ==
  (pkg.pc = "done" /\ pkg.manifest \in {"empty", "comments"})
    => ~pkg.installed /\ ~pkg.build /\ ~pkg.zip

\* C26 as stated: the desktop page's loading view is always eventually
\* followed by qr or error, the mobile page's loading and uploading views by
\* ready, success or error, and in every error view an action is offered that
\* leaves the error view.
C26_AsStated ==
  /\ (currentView = "loading") ~> (currentView \in {"qr", "error"})
  /\ (mobile.view \in {"loading", "uploading"})
       ~> (mobile.view \in {"ready", "success", "error"})
  /\ [](currentView = "error" => ENABLED (ResetClick /\ currentView' # "error"))
  /\ []((mobile.view = "error" /\ mobile.gets + mobile.puts < MaxRequests)
          => ENABLED (MobileRetry /\ mobile'.view # "error"))

\* C26: the desktop page's loading view is always eventually followed by qr
\* or error, the mobile page's loading and uploading views by ready, success or
\* error; the desktop page's error view offers an action that leaves it, and so
\* does the mobile page's error view when the page was loaded with a
\* sessionId, while without one the retry ends in the error view again.
C26_NoIndefiniteLoading ==
  /\ (currentView = "loading") ~> (currentView \in {"qr", "error"})
  /\ (mobile.view \in {"loading", "uploading"})
       ~> (mobile.view \in {"ready", "success", "error"})
  /\ [](currentView = "error" => ENABLED (ResetClick /\ currentView' # "error"))
  /\ []((mobile.view = "error" /\ mobile.gets + mobile.puts < MaxRequests)
          => IF mobile.param # MissingParam
               THEN ENABLED (MobileRetry /\ mobile'.view # "error")
               ELSE ~ENABLED (MobileRetry /\ mobile'.view # "error"))

C26_Witness ==
  /\ currentView = "error"
  /\ mobile.view = "error" /\ mobile.param # MissingParam /\ mobile.puts > 0


\* C27: whatever the order of start, retry, cancel, reset and new-upload
\* clicks, session-creation responses and channel events, at most one socket
\* the page opened is still connecting or open, and in the qr view the page
\* holds a client whose socket was opened with the sessionId of the active
\* session.
LiveChannels == {k \in AppConns : sock[k].app /\ sock[k].rs \in {"CONNECTING", "OPEN"}}

C27_OneChannel ==
  /\ Cardinality(LiveChannels) <= 1
  /\ currentView = "qr" =>
       /\ wsClient # 0
       /\ fetch[wsClient].sid = sessionId


\* C28: a click on cancel (qr view), reset (error view) or new upload (success
\* view) leaves the page in the initial view with sessionId null, no client
\* held, and no socket the page opened still connecting or open.
C28_ResetTearsDown ==
  [][(cancelUpload \/ ResetClick \/ NewUploadClick) =>
       /\ currentView' = "initial"
       /\ sessionId' = 0
       /\ wsClient' = 0
       /\ \A k \in AppConns :
            sock'[k].app => sock'[k].rs \notin {"CONNECTING", "OPEN"}]_vars


\* C29: the page sends a PUT only with a file selected and an authorization
\* held, to state.uploadUrl, and state.uploadUrl changes only when a GET
\* /upload-url response arrives, so the PUT goes to the location returned
\* last; uploadFile() called with no file or with no uploadUrl shows the error
\* view and sends nothing.
C29_WriteToLatestUrl ==
  /\ [][mobile'.puts > mobile.puts =>
          /\ mobile.file
          /\ mobile.uploadUrl # NoKey
          /\ mobile'.call = PutCall(mobile.uploadUrl)]_vars
  /\ [][mobile'.uploadUrl # mobile.uploadUrl =>
          /\ mobile.call = GetCall
          /\ mobile'.uploadUrl \in urls
          /\ mobile'.view = "ready"]_vars
  /\ [](\A f \in BOOLEAN, u \in {NoKey, mobile.uploadUrl} :
          (~f \/ u = NoKey) =>
            LET m == [mobile EXCEPT !.file = f, !.uploadUrl = u]
                r == uploadFile(m)
            IN  /\ r.view = "error"
                /\ r.call = m.call
                /\ r.gets = m.gets /\ r.puts = m.puts)

C29_Witness ==
  /\ mobile.call.kind = "put"
  /\ mobile.call.target = mobile.uploadUrl
  /\ mobile.gets = 2
  /\ \E k \in urls : k # mobile.uploadUrl /\ SessionOfKey(k) = mobile.sessionId


\* C30: no second action is queued while one is outstanding: the desktop page
\* never has two createSession() calls pending, and the Mobile Upload Page
\* sends a request (GET /upload-url or PUT) only when none of its requests is
\* in flight.
PendingCreates == {i \in AppConns : fetch[i].st = "pending"}

C30_OneOutstanding ==
  /\ [](Cardinality(PendingCreates) <= 1)
  /\ [][mobile'.gets + mobile'.puts > mobile.gets + mobile.puts =>
          mobile.call = NoCall]_vars


\* C31: an update sets only the attributes it names: $connect and $disconnect
\* change only wsConnectionId, the upload authorization only status and
\* uploadKey, the storage-completion handler only status, uploadKey and
\* completedAt, each of them in one item only; and no step changes createdAt
\* or expiresAt of an item in the table.
OnlyChanges(sid, fields) ==
  /\ \A f \in DOMAIN store[sid] \ fields : store'[sid][f] = store[sid][f]
  /\ \A s \in ValidIds \ {sid} : store'[s] = store[s]

C31_MergeUpdates ==
  /\ [][\A r \in Running :
          /\ ConnectWrite(r) => OnlyChanges(r.sid, {"wsConnectionId"})
          /\ DisconnectWrite(r) => OnlyChanges(r.sid, {"wsConnectionId"})
          /\ AuthWrite(r) => OnlyChanges(r.sid, {"status", "uploadKey"})
          /\ (S3Write(r) \/ S3WriteRaises(r)) =>
               OnlyChanges(r.sid, {"status", "uploadKey", "completedAt"})]_vars
  /\ [][\A s \in ValidIds :
          store[s].present =>
            /\ store'[s].present
            /\ store'[s].createdAt = store[s].createdAt
            /\ store'[s].expiresAt = store[s].expiresAt]_vars

C31_Witness ==
  \E s \in ValidIds :
    /\ store[s].present
    /\ store[s].status = "COMPLETED"
    /\ store[s].uploadKey # NoKey
    /\ store[s].completedAt # NoTime
    /\ store[s].createdAt # NoTime
    /\ store[s].wsConnectionId = NoConn
    /\ gw[1] = "gone"
    /\ Running = {}


\* C32: wsConnectionId of a session is set only by an accepted $connect for
\* that session, to that connection's id, and stays until a later accepted
\* $connect replaces it or the $disconnect of the connection it names clears
\* it; once the $disconnect of a connection has been processed, no item
\* carries that connection's id.
DetachProcessed(c) ==
  /\ gw[c] = "gone"
  /\ \A r \in Running : r.conn # c

C32_ConnectionIdLifecycle ==
  /\ [][\A s \in ValidIds :
          store'[s].wsConnectionId # store[s].wsConnectionId =>
            \/ \E r \in Running :
                 /\ ConnectWrite(r) /\ r.sid = s
                 /\ store'[s].wsConnectionId = r.conn
            \/ \E r \in Running :
                 /\ DisconnectWrite(r) /\ r.conn = store[s].wsConnectionId
                 /\ store'[s].wsConnectionId = NoConn]_vars
  /\ [](\A c \in Conns :
          DetachProcessed(c) => \A s \in ValidIds : store[s].wsConnectionId # c)


\* C38: the $disconnect of connection c changes wsConnectionId only in an item
\* that carries c at the moment of the update, whatever $connect of another
\* connection to the same session ran in between.
C38_DetachClearsOwnId ==
  [][\A r \in Running :
       DisconnectWrite(r) =>
         \/ store[r.sid].wsConnectionId = r.conn
         \/ store'[r.sid].wsConnectionId = store[r.sid].wsConnectionId]_vars


\* C33, as stated: once the completion of the session the page waits for is
\* recorded and no completion message is on its way to the page, no completion
\* message is ever posted to the page and the page leaves the qr view only by
\* cancel.
CompletionsFor(c, s) ==
  {n \in 1..Len(wire[c]) : IsCompletion(wire[c][n], s)}

\* the page shows the QR code of a session whose completion is recorded while
\* no completion message is on the way to the page's socket
Missed(s) ==
  /\ currentView = "qr" /\ sessionId = s /\ wsClient # 0
  /\ store[s].status = "COMPLETED"
  /\ CompletionsFor(wsClient, s) = {}

C34_ParameterAfterUpload ==
  /\ [](pkg.script = "websocket_event_handler" =>
          /\ pkg.param # "earlier" =>
               /\ pkg.uploaded
               /\ pkg.param = pkg.name
               /\ pkg.name \in pkg.remote
          /\ (pkg.pc = "exited" /\ ~pkg.uploaded) => pkg.param = "earlier")
  /\ [][(/\ pkg.script = "websocket_event_handler"
         /\ pkg.pc \notin {"idle", "mkdir"}
         /\ \/ pkg.build /\ ~pkg'.build
            \/ pkg.zip /\ ~pkg'.zip) =>
          /\ pkg.uploaded
          /\ pkg.param = pkg.name]_vars

C34_Witness ==
  /\ pkg.script = "websocket_event_handler"
  /\ pkg.pc = "done"
  /\ pkg.param = "websocket-event-handler-now.zip"
  /\ ~pkg.build /\ ~pkg.zip


\* C35: every item in the table carries status, createdAt and expiresAt, an
\* item comes into the table only by create_session (the id generated in that
\* step), and no handler step takes one out: only the table's time-to-live
\* does.
C35_OnlyCreateMakesRecords ==
  /\ [](\A s \in ValidIds :
          store[s].present =>
            /\ store[s].status # "NONE"
            /\ store[s].createdAt # NoTime
            /\ store[s].expiresAt # NoTime)
  /\ [][\A s \in ValidIds :
          /\ (~store[s].present /\ store'[s].present) =>
               nextId' = nextId + 1 /\ s = nextId'
          /\ (store[s].present /\ ~store'[s].present) => Purge(s)]_vars


\* C36: an event of a socket whose client the page does not hold any more
\* (error, close, message) leaves the view, the held client and every other
\* socket as they are; and the initial view is left only by startUpload.
C36_StaleEventsIgnored ==
  /\ [][\A k \in AppConns :
          (k # wsClient /\ (SocketError(k) \/ SocketClosed(k) \/ SocketMessage(k))) =>
            /\ UNCHANGED <<currentView, sessionId, wsClient>>
            /\ \A j \in AppConns \ {k} : sock'[j] = sock[j]]_vars
  /\ [][(currentView = "initial" /\ currentView' # "initial") =>
          startUpload]_vars


\* C37: a completion notice naming an earlier session, one the page has reset
\* away from, never moves the page to the success view: neither while no
\* session is held (sessionId is null) nor while a later session is active;
\* the view stays as it was.
ResetAway(s) ==
  /\ \E i \in AppConns : fetch[i].st = "done" /\ fetch[i].sid = s
  /\ sessionId # s

StaleCompletion(f, s) ==
  /\ f.kind = "object"
  /\ f.action = "UPLOAD_COMPLETED"
  /\ f.sessionId = s

C37_StaleCompletionIgnored ==
  [][\A k \in AppConns : \A s \in ValidIds : \A f \in FramesAt(k) :
       (ResetAway(s) /\ StaleCompletion(f, s) /\ Handles(k, f)) =>
          /\ currentView' # "success"
          /\ UNCHANGED <<currentView, sessionId>>]_vars

C37_Witness ==
  /\ sessionId = 0
  /\ currentView = "initial"
  /\ \E s \in ValidIds : ResetAway(s)
  /\ \E k \in AppConns : sock[k].app /\ sock[k].rs = "OPEN"

====
